---------------------------- MODULE Spec2Model ----------------------------
(***************************************************************************)
(* Model of src/render/color.rs: the Color value, its constructor and      *)
(* accessor, the conversion from a packed u32 and the string parser.       *)
(*                                                                         *)
(* A string is a sequence of Unicode scalar values (code points).  Rust    *)
(* measures str::len and str::split_at in UTF-8 bytes, so every character  *)
(* carries its encoded width (len_utf8) and a split that does not fall on  *)
(* a character boundary panics.  An Option is <<"None">> or <<"Some", v>>; *)
(* a panicking call yields <<"Panic">>.                                    *)
(***************************************************************************)
EXTENDS Integers, Sequences, FiniteSets, TLC

VARIABLES fn, arg, s, pc, ret, vals

vars == <<fn, arg, s, pc, ret, vals>>

-----------------------------------------------------------------------------
(* Bounds of the model *)

\* Longest body (in UTF-8 bytes) of a string handed to parse
MaxLen == 9

\* Most prefixes ("#" or "0x") put in front of a body
MaxPrefixes == 1

\* Most prefixes put in front of a body in the specification of the prefix
\* chains
MaxChain == 3

\* Longest string (in UTF-8 bytes) handed to parse_color
MaxColorLen == 3

-----------------------------------------------------------------------------
(* Characters that the source names *)

CharHash == 35
CharZero == 48
CharX    == 120

\* Characters of the bodies handed to parse: '0', 'F', 'g' and U+00E9
\* (e acute, two bytes in UTF-8)
ParseAlphabet == {48, 70, 103, 233}

\* Characters of the strings handed to parse_color: the ends of the three
\* ranges of hex digits, their neighbours, and a two-byte character
ColorAlphabet == {47, 48, 57, 58, 64, 65, 70, 71, 96, 97, 102, 103, 233}

\* Characters of the bodies of the prefix chains: '0' and 'F'
ChainAlphabet == {48, 70}

\* Channel bytes handed to rgba and packed into the u32 handed to from
ByteSamples == {0, 1, 128, 255}

-----------------------------------------------------------------------------
(* Option and panic *)

None == <<"None">>

Some(v) == <<"Some", v>>

Panic == <<"Panic">>

IsSome(o) == Len(o) = 2 /\ o[1] = "Some"

\* F applied to the value of e, e being evaluated once
Let(e, F(_)) == CHOOSE r \in {F(v) : v \in {e}} : TRUE

\* Option::map; a panic in the receiver propagates
map(o, F(_)) ==
    Let(o, LAMBDA v : IF v = Panic THEN Panic
                      ELSE IF v = None THEN None
                      ELSE Some(F(v[2])))

\* Option::and_then
and_then(o, F(_)) ==
    Let(o, LAMBDA v : IF v = Panic THEN Panic
                      ELSE IF v = None THEN None
                      ELSE F(v[2]))

\* The operator ? on an Option: the function returns None when o is None,
\* and goes on with the value of o otherwise
Try(o, F(_)) == and_then(o, F)

\* let (a, b) = pair, the pair being the result of split_at, whose panic
\* ends the function
LetPair(pair, F(_, _)) ==
    Let(pair, LAMBDA v : IF v = Panic THEN Panic ELSE F(v[1], v[2]))

-----------------------------------------------------------------------------
(* Integer helpers.  A u8 is a natural number below 256.  A u32 is the     *)
(* sequence of its 32 bits, bit 0 first.                                   *)

RECURSIVE BitOr(_, _)
BitOr(x, y) ==
    IF x = 0 THEN y
    ELSE IF y = 0 THEN x
    ELSE (IF x % 2 = 1 \/ y % 2 = 1 THEN 1 ELSE 0)
         + 2 * BitOr(x \div 2, y \div 2)

\* x << n on a u8: bits shifted past bit 7 are lost
Shl8(x, n) == (x * (2 ^ n)) % 256

\* The k low bits of n, bit 0 first
RECURSIVE Bits(_, _)
Bits(n, k) == IF k = 0 THEN <<>> ELSE <<n % 2>> \o Bits(n \div 2, k - 1)

\* The u32 of a literal n
U32(n) == Bits(n, 32)

\* x & y on u32
And32(x, y) == [i \in 1..32 |-> x[i] * y[i]]

\* x >> n on u32
Shr32(x, n) == [i \in 1..32 |-> IF i + n <= 32 THEN x[i + n] ELSE 0]

\* x as u8 on u32: the low eight bits
RECURSIVE AsU8(_)
AsU8(x) == IF Len(x) > 8 THEN AsU8(SubSeq(x, 1, 8))
           ELSE IF x = <<>> THEN 0
           ELSE Head(x) + 2 * AsU8(Tail(x))

-----------------------------------------------------------------------------
(* Strings *)

\* char::len_utf8
len_utf8(c) ==
    IF c < 128 THEN 1
    ELSE IF c < 2048 THEN 2
    ELSE IF c < 65536 THEN 3
    ELSE 4

\* str::len: the length in bytes
RECURSIVE len(_)
len(str) == IF str = <<>> THEN 0 ELSE len_utf8(Head(str)) + len(Tail(str))

\* The number of characters that end at or before byte offset mid, when
\* mid is a character boundary of str; -1 when it is not
RECURSIVE CharsBefore(_, _)
CharsBefore(str, mid) ==
    IF mid = 0 THEN 0
    ELSE IF str = <<>> \/ len_utf8(Head(str)) > mid THEN -1
    ELSE LET k == CharsBefore(Tail(str), mid - len_utf8(Head(str)))
         IN  IF k = -1 THEN -1 ELSE k + 1

\* str::split_at: panics when mid is past the end or inside a character
split_at(str, mid) ==
    LET k == CharsBefore(str, mid)
    IN  IF k = -1 THEN Panic
        ELSE <<SubSeq(str, 1, k), SubSeq(str, k + 1, Len(str))>>

\* str::starts_with
starts_with(str, pat) ==
    /\ Len(str) >= Len(pat)
    /\ SubSeq(str, 1, Len(pat)) = pat

\* to_digit16 with the range of the small letters one too long
to_digit16_g(c) ==
    IF c >= 48 /\ c <= 57 THEN Some(c - 48)
    ELSE IF c >= 97 /\ c <= 103 THEN Some(c - 97 + 10)
    ELSE IF c >= 65 /\ c <= 70 THEN Some(c - 65 + 10)
    ELSE None

\* char::to_digit(16): ASCII digits and letters only
to_digit16(c) ==
    IF c >= 48 /\ c <= 57 THEN Some(c - 48)
    ELSE IF c >= 97 /\ c <= 102 THEN Some(c - 97 + 10)
    ELSE IF c >= 65 /\ c <= 70 THEN Some(c - 65 + 10)
    ELSE None

-----------------------------------------------------------------------------
(* Color *)

\* rgba without the switch of red and blue
rgba_unswapped(r, g, b, a) == [red |-> r, green |-> g, blue |-> b, alpha |-> a]

\* Color::rgba: red and blue are switched
rgba(r, g, b, a) == [red |-> b, green |-> g, blue |-> r, alpha |-> a]

\* Color::values
values(c) == <<c.red, c.green, c.blue, c.alpha>>

\* Color::hex_to_u8
hex_to_u8(c) == map(to_digit16(c), LAMBDA x : x % 256)

\* Iterator::next on s.chars().take(2), for the i-th call
next(str, i) == IF i <= 2 /\ i <= Len(str) THEN Some(str[i]) ELSE None

\* parse_color with the two nibbles exchanged
parse_color_nibbles(str) ==
    Try(and_then(next(str, 1), hex_to_u8), LAMBDA digit1 :
        map(and_then(next(str, 2), hex_to_u8), LAMBDA i2 :
            BitOr(digit1, Shl8(i2, 4))))

\* Color::parse_color
parse_color(str) ==
    Try(and_then(next(str, 1), hex_to_u8), LAMBDA digit1 :
        map(and_then(next(str, 2), hex_to_u8), LAMBDA i2 :
            BitOr(Shl8(digit1, 4), i2)))

\* parse_rgb with the first two fields read as green, red
parse_rgb_grb(str) ==
    IF len(str) = 6
    THEN LetPair(split_at(str, 2), LAMBDA s_red, s_rest :
         LetPair(split_at(s_rest, 2), LAMBDA s_green, s_blue :
         Try(parse_color(s_red), LAMBDA red :
         Try(parse_color(s_green), LAMBDA green :
         map(parse_color(s_blue), LAMBDA b : rgba(green, red, b, 255))))))
    ELSE None

\* Color::parse_rgb
parse_rgb(str) ==
    IF len(str) = 6
    THEN LetPair(split_at(str, 2), LAMBDA s_red, s_rest :
         LetPair(split_at(s_rest, 2), LAMBDA s_green, s_blue :
         Try(parse_color(s_red), LAMBDA red :
         Try(parse_color(s_green), LAMBDA green :
         map(parse_color(s_blue), LAMBDA b : rgba(red, green, b, 255))))))
    ELSE None

\* parse_argb that hands the stored channels of the intermediate color to
\* rgba as they are
parse_argb_twice(str) ==
    IF len(str) = 8
    THEN LetPair(split_at(str, 2), LAMBDA str_a, str_rgb :
         Try(parse_color(str_a), LAMBDA alpha :
         map(parse_rgb(str_rgb), LAMBDA rgb :
             rgba(rgb.red, rgb.green, rgb.blue, alpha))))
    ELSE None

\* Color::parse_argb
parse_argb(str) ==
    IF len(str) = 8
    THEN LetPair(split_at(str, 2), LAMBDA str_a, str_rgb :
         Try(parse_color(str_a), LAMBDA alpha :
         map(parse_rgb(str_rgb), LAMBDA rgb :
             rgba(rgb.blue, rgb.green, rgb.red, alpha))))
    ELSE None

\* Color::parse, as the function of its argument
RECURSIVE parse(_)
parse(str) ==
    IF starts_with(str, <<CharHash>>)
    THEN parse(split_at(str, 1)[2])
    ELSE IF starts_with(str, <<CharZero, CharX>>)
    THEN parse(split_at(str, 2)[2])
    ELSE IF len(str) = 8 THEN parse_argb(str)
    ELSE IF len(str) = 6 THEN parse_rgb(str)
    ELSE None

\* from with green shifted as red is
from_u32_shift(val) ==
    LET red   == AsU8(Shr32(And32(val, U32(16711680)), 16))
        green == AsU8(Shr32(And32(val, U32(65280)), 16))
        blue  == AsU8(And32(val, U32(255)))
    IN  rgba(red, green, blue, 255)

\* from that switches red and blue itself before it calls rgba
from_u32_switch(val) ==
    LET red   == AsU8(Shr32(And32(val, U32(16711680)), 16))
        green == AsU8(Shr32(And32(val, U32(65280)), 8))
        blue  == AsU8(And32(val, U32(255)))
    IN  rgba(blue, green, red, 255)

\* impl From<u32> for Color
from_u32(val) ==
    LET red   == AsU8(Shr32(And32(val, U32(16711680)), 16))
        green == AsU8(Shr32(And32(val, U32(65280)), 8))
        blue  == AsU8(And32(val, U32(255)))
    IN  rgba(red, green, blue, 255)

-----------------------------------------------------------------------------
(* Inputs *)

\* The sequences of at most n prefixes, each "#" or "0x"
RECURSIVE Prefixes(_)
Prefixes(n) ==
    IF n = 0 THEN {<<>>}
    ELSE LET P == Prefixes(n - 1)
         IN  P \cup {<<CharHash>> \o p : p \in P}
               \cup {<<CharZero, CharX>> \o p : p \in P}

\* The u32 whose bytes are h, r, g, b from the highest to the lowest
U32OfBytes(h, r, g, b) ==
    Bits(b, 8) \o Bits(g, 8) \o Bits(r, 8) \o Bits(h, 8)

U32Samples ==
    {U32OfBytes(h, r, g, b) :
        h \in ByteSamples, r \in ByteSamples,
        g \in ByteSamples, b \in ByteSamples}

-----------------------------------------------------------------------------
(* The calls *)

Init ==
    /\ pc = "call"
    /\ ret = <<>>
    /\ vals = <<>>
    /\ \/ /\ fn = "rgba"
          /\ arg \in ByteSamples \X ByteSamples \X ByteSamples \X ByteSamples
          /\ s = <<>>
       \/ /\ fn = "from"
          /\ arg \in U32Samples
          /\ s = <<>>
       \/ /\ fn = "parse_color"
          /\ \E n \in 0..MaxColorLen :
                /\ arg \in [1..n -> ColorAlphabet]
                /\ len(arg) <= MaxColorLen
          /\ s = <<>>
       \/ /\ fn = "parse"
          /\ \E n \in 0..MaxLen, p \in Prefixes(MaxPrefixes) :
             \E b \in [1..n -> ParseAlphabet] :
                /\ len(b) <= MaxLen
                /\ arg = p \o b
          /\ s = arg

\* Color::rgba(r, g, b, a)
CallRgba ==
    /\ pc = "call" /\ fn = "rgba"
    /\ ret' = rgba(arg[1], arg[2], arg[3], arg[4])
    /\ pc' = "done"
    /\ UNCHANGED <<fn, arg, s, vals>>

\* Color::from(val)
CallFrom ==
    /\ pc = "call" /\ fn = "from"
    /\ ret' = from_u32(arg)
    /\ pc' = "done"
    /\ UNCHANGED <<fn, arg, s, vals>>

\* Color::parse_color(s)
CallParseColor ==
    /\ pc = "call" /\ fn = "parse_color"
    /\ ret' = parse_color(arg)
    /\ pc' = "done"
    /\ UNCHANGED <<fn, arg, s, vals>>

\* Color::parse, first branch: strip "#" and recurse
ParseHash ==
    /\ pc = "call" /\ fn = "parse"
    /\ starts_with(s, <<CharHash>>)
    /\ s' = split_at(s, 1)[2]
    /\ UNCHANGED <<fn, arg, pc, ret, vals>>

\* ParseHex that strips one byte only
ParseHex_one ==
    /\ pc = "call" /\ fn = "parse"
    /\ ~starts_with(s, <<CharHash>>)
    /\ starts_with(s, <<CharZero, CharX>>)
    /\ s' = split_at(s, 1)[2]
    /\ UNCHANGED <<fn, arg, pc, ret, vals>>

\* Color::parse, second branch: strip "0x" and recurse
ParseHex ==
    /\ pc = "call" /\ fn = "parse"
    /\ ~starts_with(s, <<CharHash>>)
    /\ starts_with(s, <<CharZero, CharX>>)
    /\ s' = split_at(s, 2)[2]
    /\ UNCHANGED <<fn, arg, pc, ret, vals>>

\* ParseArgb with the length tested before the prefix "0x"
ParseArgb_length_first ==
    /\ pc = "call" /\ fn = "parse"
    /\ ~starts_with(s, <<CharHash>>)
    /\ len(s) = 8
    /\ ret' = parse_argb(s)
    /\ pc' = "done"
    /\ UNCHANGED <<fn, arg, s, vals>>

\* Color::parse, third branch: eight bytes
ParseArgb ==
    /\ pc = "call" /\ fn = "parse"
    /\ ~starts_with(s, <<CharHash>>)
    /\ ~starts_with(s, <<CharZero, CharX>>)
    /\ len(s) = 8
    /\ ret' = parse_argb(s)
    /\ pc' = "done"
    /\ UNCHANGED <<fn, arg, s, vals>>

\* Color::parse, fourth branch: six bytes
ParseRgb ==
    /\ pc = "call" /\ fn = "parse"
    /\ ~starts_with(s, <<CharHash>>)
    /\ ~starts_with(s, <<CharZero, CharX>>)
    /\ len(s) # 8
    /\ len(s) = 6
    /\ ret' = parse_rgb(s)
    /\ pc' = "done"
    /\ UNCHANGED <<fn, arg, s, vals>>

\* Color::parse, last branch
ParseNone ==
    /\ pc = "call" /\ fn = "parse"
    /\ ~starts_with(s, <<CharHash>>)
    /\ ~starts_with(s, <<CharZero, CharX>>)
    /\ len(s) # 8
    /\ len(s) # 6
    /\ ret' = None
    /\ pc' = "done"
    /\ UNCHANGED <<fn, arg, s, vals>>

\* Color::values on the color a call returned
CallValues ==
    /\ pc = "done"
    /\ \/ fn \in {"rgba", "from"} /\ vals' = values(ret)
       \/ fn = "parse" /\ IsSome(ret) /\ vals' = values(ret[2])
    /\ pc' = "read"
    /\ UNCHANGED <<fn, arg, s, ret>>

Next ==
    \/ CallRgba
    \/ CallFrom
    \/ CallParseColor
    \/ ParseHash
    \/ ParseHex
    \/ ParseArgb
    \/ ParseRgb
    \/ ParseNone
    \/ CallValues

Spec == Init /\ [][Next]_vars

-----------------------------------------------------------------------------
(* The prefix chains: parse alone, on bodies of hex digits of every length *)
(* behind up to MaxChain prefixes.  A call of parse is synchronous and     *)
(* runs until it returns, hence the weak fairness of its steps.            *)

InitChain ==
    /\ pc = "call"
    /\ ret = <<>>
    /\ vals = <<>>
    /\ fn = "parse"
    /\ \E n \in 0..MaxLen, p \in Prefixes(MaxChain) :
          \E b \in [1..n -> ChainAlphabet] : arg = p \o b
    /\ s = arg

NextChain ==
    \/ ParseHash
    \/ ParseHex
    \/ ParseArgb
    \/ ParseRgb
    \/ ParseNone

SpecChain == InitChain /\ [][NextChain]_vars /\ WF_vars(NextChain)

-----------------------------------------------------------------------------
(* Vocabulary of the properties *)

\* The characters that are hex digits
HexDigits == (48..57) \cup (65..70) \cup (97..102)

\* The value of a hex digit, a letter having the same value in either case
HexVal(c) ==
    IF c <= 57 THEN c - 48
    ELSE IF c <= 70 THEN c - 55
    ELSE c - 87

\* The byte written by the two hex digits of str at i and i + 1
Field(str, i) == 16 * HexVal(str[i]) + HexVal(str[i + 1])

\* str is n hex digits
IsHex(str, n) == Len(str) = n /\ \A i \in 1..n : str[i] \in HexDigits

\* str is a valid body: 6 or 8 hex digits
IsHexBody(str) == IsHex(str, 6) \/ IsHex(str, 8)

\* str without its leading prefixes "#" and "0x"
RECURSIVE StripAll(_)
StripAll(str) ==
    IF Len(str) >= 1 /\ str[1] = CharHash
    THEN StripAll(SubSeq(str, 2, Len(str)))
    ELSE IF Len(str) >= 2 /\ str[1] = CharZero /\ str[2] = CharX
    THEN StripAll(SubSeq(str, 3, Len(str)))
    ELSE str

\* The number written by a string of hex digits
RECURSIVE NumValue(_)
NumValue(str) ==
    IF str = <<>> THEN 0
    ELSE 16 * NumValue(SubSeq(str, 1, Len(str) - 1)) + HexVal(str[Len(str)])

\* Byte k (0 the lowest) of a u32
RECURSIVE BitsValue(_)
BitsValue(bits) ==
    IF bits = <<>> THEN 0 ELSE Head(bits) + 2 * BitsValue(Tail(bits))

ByteOf(x, k) == BitsValue(SubSeq(x, 8 * k + 1, 8 * k + 8))

\* A call of fn has returned
Returned(f) == fn = f /\ pc \in {"done", "read"}

-----------------------------------------------------------------------------
(* C1 *)

\* C1: for all bytes r, g, b, a, values(rgba(r, g, b, a)) = (b, g, r, a):
\* rgba stores red and blue swapped and green and alpha unchanged, and
\* values returns the stored channels in the order red, green, blue, alpha.
C1_RgbaValues ==
    /\ Returned("rgba") =>
          ret = [red |-> arg[3], green |-> arg[2],
                 blue |-> arg[1], alpha |-> arg[4]]
    /\ (fn = "rgba" /\ pc = "read") =>
          /\ vals = <<arg[3], arg[2], arg[1], arg[4]>>
          /\ vals = <<ret.red, ret.green, ret.blue, ret.alpha>>

C1_Witness ==
    /\ fn = "rgba" /\ pc = "read"
    /\ arg = <<1, 128, 255, 0>>
    /\ vals = <<255, 128, 1, 0>>

-----------------------------------------------------------------------------
(* C2 *)

\* C2: for every string AARRGGBB of 8 hex digits, parse succeeds with stored
\* red = BB, green = GG, blue = RR, alpha = AA: one net inversion of red and
\* blue, the same as parse_rgb applies to the last 6 digits.
C2_ParseArgb ==
    (Returned("parse") /\ IsHex(arg, 8)) =>
        /\ ret = Some([red |-> Field(arg, 7), green |-> Field(arg, 5),
                       blue |-> Field(arg, 3), alpha |-> Field(arg, 1)])
        /\ LET rgb == parse_rgb(SubSeq(arg, 3, 8))[2]
           IN  /\ ret[2].red = rgb.red
               /\ ret[2].green = rgb.green
               /\ ret[2].blue = rgb.blue

C2_Witness ==
    /\ Returned("parse")
    /\ arg = <<70, 48, 70, 70, 48, 70, 48, 48>>
    /\ ret = Some([red |-> 0, green |-> 15, blue |-> 255, alpha |-> 240])

-----------------------------------------------------------------------------
(* C3 *)

\* C3: for every string RRGGBB of 6 hex digits, parse succeeds with stored
\* red = BB, green = GG, blue = RR, alpha = 255, the three fields of two
\* characters being taken in the order red, green, blue.
C3_ParseRgb ==
    (Returned("parse") /\ IsHex(arg, 6)) =>
        ret = Some([red |-> Field(arg, 5), green |-> Field(arg, 3),
                    blue |-> Field(arg, 1), alpha |-> 255])

C3_Witness ==
    /\ Returned("parse")
    /\ arg = <<70, 70, 48, 70, 70, 48>>
    /\ ret = Some([red |-> 240, green |-> 15, blue |-> 255, alpha |-> 255])

-----------------------------------------------------------------------------
(* C4 *)

\* The faults C4 lists: a length in bytes that is neither 6 nor 8, or a
\* character that is not a hex digit
C4_Listed(str) ==
    \/ len(str) \notin {6, 8}
    \/ \E i \in 1..Len(str) : str[i] \notin HexDigits

\* C4 as stated: parse yields no color for the empty string, every string of
\* length 1-5, 7, or 9 and more, and every string with a character that is
\* not a hex digit.  ("Fails" is read here in its weakest sense, no color is
\* returned, so that a violation is a string that parse accepts.)
C4_AsStated ==
    (Returned("parse") /\ C4_Listed(arg)) => ~IsSome(ret)

\* C4 (amended): with the lengths and digit positions taken on what is left
\* of the string once every leading "#" and "0x" is stripped: parse returns
\* None when that rest has a length other than 6 or 8 bytes, and returns a
\* color exactly when that rest is 6 or 8 hex digits.
C4_ParseRejects ==
    Returned("parse") =>
        LET rest == StripAll(arg)
        IN  /\ len(rest) \notin {6, 8} => ret = None
            /\ IsSome(ret) <=> IsHexBody(rest)

C4_Witness ==
    /\ Returned("parse")
    /\ arg # StripAll(arg)
    /\ len(arg) = 8
    /\ len(StripAll(arg)) = 7
    /\ ret = None

\* A string of 9 bytes or more is rejected
C4_WitnessLong ==
    /\ Returned("parse")
    /\ arg = StripAll(arg)
    /\ len(arg) = 9
    /\ \A i \in 1..Len(arg) : arg[i] \in HexDigits
    /\ ret = None

-----------------------------------------------------------------------------
(* C5 *)

\* C5: for every string, of any length and with any characters, those of
\* more than one byte included, parse returns Some(Color) or None and never
\* panics; every malformed string yields None.
C5_NeverPanics ==
    Returned("parse") =>
        /\ ret = None \/ IsSome(ret)
        /\ ~IsHexBody(StripAll(arg)) => ret = None

-----------------------------------------------------------------------------
(* C6 *)

\* C6: for every valid body x of 6 or 8 hex digits, parse("#" + x) and
\* parse("0x" + x) equal parse(x); the prefix is tested before the length,
\* so "0x" + x with x of 6 digits is decoded as RGB with alpha 255.
C6_PrefixInsensitive ==
    /\ (Returned("parse") /\ IsHexBody(arg)) =>
          /\ ret = parse(arg)
          /\ IsSome(ret)
    /\ (Returned("parse") /\ Len(arg) >= 1 /\ arg[1] = CharHash
          /\ IsHexBody(Tail(arg))) =>
          /\ ret = parse(Tail(arg))
          /\ IsSome(ret)
    /\ (Returned("parse") /\ Len(arg) >= 2 /\ arg[1] = CharZero
          /\ arg[2] = CharX /\ IsHexBody(Tail(Tail(arg)))) =>
          /\ ret = parse(Tail(Tail(arg)))
          /\ IsSome(ret)
          /\ Len(arg) = 8 =>
                ret = Some([red |-> Field(arg, 7), green |-> Field(arg, 5),
                            blue |-> Field(arg, 3), alpha |-> 255])

C6_Witness ==
    /\ Returned("parse")
    /\ arg = <<48, 120, 70, 48, 48, 70, 70, 70>>
    /\ ret = Some([red |-> 255, green |-> 15, blue |-> 240, alpha |-> 255])

-----------------------------------------------------------------------------
(* C7 *)

\* C7: for every u32 v, Color::from(v) stores (red, green, blue, alpha) =
\* (v & 0xff, (v >> 8) & 0xff, (v >> 16) & 0xff, 255), and the high byte of
\* v is ignored: Color::from(v) = Color::from(v & 0xffffff).
C7_FromU32 ==
    Returned("from") =>
        /\ values(ret) = <<ByteOf(arg, 0), ByteOf(arg, 1), ByteOf(arg, 2), 255>>
        /\ ret = from_u32(SubSeq(arg, 1, 24) \o Bits(0, 8))

C7_Witness ==
    /\ Returned("from")
    /\ ByteOf(arg, 3) = 255
    /\ ByteOf(arg, 2) = 255 /\ ByteOf(arg, 1) = 1 /\ ByteOf(arg, 0) = 0
    /\ ret = [red |-> 0, green |-> 1, blue |-> 255, alpha |-> 255]

-----------------------------------------------------------------------------
(* C8 *)

\* C8: for every valid body x and every finite sequence of the prefixes "#"
\* and "0x" put in front of it ("#0x" + x among them), the recursion of parse
\* strips every prefix in turn, terminates, and returns parse(x), a color.
C8_PrefixChain ==
    /\ <>(pc = "done")
    /\ [](Returned("parse") =>
            /\ s = StripAll(arg)
            /\ IsHexBody(StripAll(arg)) =>
                  /\ ret = parse(StripAll(arg))
                  /\ IsSome(ret))

C8_Witness ==
    /\ Returned("parse")
    /\ Len(arg) = 9
    /\ SubSeq(arg, 1, 3) = <<CharHash, CharZero, CharX>>
    /\ IsHex(SubSeq(arg, 4, Len(arg)), 6)
    /\ s = SubSeq(arg, 4, Len(arg))
    /\ IsSome(ret)

-----------------------------------------------------------------------------
(* C9 *)

\* C9: parse_color returns Some(16 * value(d1) + value(d2)), a byte, for a
\* string whose first two characters are the hex digits d1 d2, whatever
\* follows them, and None for the empty string, a string of one character,
\* and a string whose first or second character is not a hex digit.
C9_ParseColor ==
    Returned("parse_color") =>
        IF Len(arg) >= 2 /\ arg[1] \in HexDigits /\ arg[2] \in HexDigits
        THEN /\ ret = Some(16 * HexVal(arg[1]) + HexVal(arg[2]))
             /\ ret[2] \in 0..255
        ELSE ret = None

C9_Witness ==
    /\ Returned("parse_color")
    /\ arg = <<102, 65, 103>>
    /\ ret = Some(250)

-----------------------------------------------------------------------------
(* C10 *)

\* C10: the integer path and the string path agree: for every string s of 6
\* hex digits that writes the number n, parse(s) = Some(Color::from(n)), and
\* parse("FF" + s) = Some(Color::from(n)).
C10_PathsAgree ==
    /\ (Returned("parse") /\ IsHex(arg, 6)) =>
          ret = Some(from_u32(U32(NumValue(arg))))
    /\ (Returned("parse") /\ IsHex(arg, 8) /\ Field(arg, 1) = 255) =>
          ret = Some(from_u32(U32(NumValue(SubSeq(arg, 3, 8)))))

C10_Witness ==
    /\ Returned("parse")
    /\ arg = <<70, 70, 70, 48, 48, 70, 48, 48>>
    /\ ret = Some(from_u32(U32(15732480)))
    /\ ret = Some([red |-> 0, green |-> 15, blue |-> 240, alpha |-> 255])

=============================================================================
